---- MODULE Spec2Model ----
(***************************************************************************)
(* Model of FlightMonitorAdvanced (src/flight_monitor_advanced.py): the    *)
(* pre-start wait, the baseline fetch, the tick loop, the change detector  *)
(* and the result assembled by start().                                    *)
(*                                                                         *)
(* Conventions                                                             *)
(*  - Python's None is the string "None"; a dict that is None is NoData.   *)
(*  - The clock `now` counts whole seconds since midnight of day 0; both   *)
(*    datetime.now(BRASILIA_TZ) and time.time() are read from it.          *)
(*  - A "%H:%M:%S" string is represented by its second of the day, which   *)
(*    orders the same way as the zero-padded string.                       *)
(*  - A time string is a sequence of one-character strings.                *)
(*  - The snapshot source is a script: the outcome of the n-th call of     *)
(*    _extract_flight_data, the last outcome repeating for ever.           *)
(*  - condition_holds is what the injected stop condition would return if  *)
(*    it were called now; like the arrival time of the table in            *)
(*    exemplo_integracao.py it turns true once and stays true.             *)
(*  - `second` holds the locals of a second call of start() on the same    *)
(*    instance; it stays idle in Spec.                                     *)
(*  - `fleet` holds the monitors that monitorar_multiplos_voos builds, one  *)
(*    per flight and thread, and the lists they allocate; there is none     *)
(*    in Spec.                                                              *)
(*  - `detect` holds the arguments and the return values of calls of       *)
(*    _compare_data made on their own; there is none in Spec.              *)
(*  - `tabela` is the flight table of exemplo_integracao.py, with the      *)
(*    moment at which its arrival time was filled in.                      *)
(*  - `basic` holds a FlightMonitor (src/flight_monitor.py) that runs on   *)
(*    the same source as the advanced monitor; there is none in Spec.      *)
(***************************************************************************)
EXTENDS Integers, Sequences, FiniteSets, TLC

None == "None"

NoData == [none |-> TRUE]

NoResult == [status |-> None]

SecondsPerMinute == 60

SecondsPerDay == 86400

Min(a, b) == IF a <= b THEN a ELSE b

-----------------------------------------------------------------------------
(* Bounds of the model.                                                    *)

MaxInterval == 2

MaxDuration == 3

MaxFetchTime == 1

MaxCondTime == 1

MaxStops == 1

-----------------------------------------------------------------------------
(* Snapshots (the dict built by _extract_flight_data) and source scripts.  *)

EmptyData ==
  [takeoff |-> None, takeoff_scheduled |-> None, landing |-> None,
   landing_scheduled |-> None, status |-> None, origin |-> None,
   destination |-> None, error |-> None, parse_error |-> None, raises |-> None]

EnRoute ==
  [EmptyData EXCEPT !.takeoff = "10:05", !.takeoff_scheduled = "10:00",
                    !.landing_scheduled = "14:30", !.status = "En Route",
                    !.origin = "SBSP", !.destination = "SBRJ"]

Arriving == [EnRoute EXCEPT !.landing = "14:32"]

Landed == [EnRoute EXCEPT !.landing = "14:32", !.status = "Landed"]

Unknown == [EnRoute EXCEPT !.status = ""]

FetchError == [EmptyData EXCEPT !.error = "ConnectionError"]

ParseError == [EmptyData EXCEPT !.parse_error = "JSONDecodeError"]

FetchRaises == [EmptyData EXCEPT !.raises = "AttributeError"]

Steady == <<EnRoute>>

FailFirst == <<FetchError, EnRoute>>

FailMid == <<EnRoute, FetchError, FetchError, Landed>>

LandingAtTick3 == <<EnRoute, EnRoute, Arriving>>

LostAndBack == <<Arriving, EnRoute, Arriving>>

Flapping == <<EnRoute, Unknown, Landed, EnRoute>>

Unparseable == <<EnRoute, ParseError, EnRoute>>

Crashing == <<EnRoute, FetchRaises>>

Scripts ==
  {Steady, FailFirst, FailMid, LandingAtTick3, LostAndBack, Flapping,
   Unparseable, Crashing}

(* The scheduled times given to the constructor, and the clock values at   *)
(* which start() is called: 12:00 minus the 15 minutes lead is second      *)
(* 42300 of the day, so the run starts 2 seconds early or 90 seconds late. *)
ScheduledTimes == { <<"1", "2", ":", "0", "0">>, <<"1", "2", "h", "0", "0">> }

LeadMinutes == {15}

InitialClocks == {42298, 42390}

(* 23:59:58 is second 86398 of the day. *)
NightClocks == {42298, 86398}

StopConditions == {None, "any"}

-----------------------------------------------------------------------------
VARIABLES
  scheduled_time, minutes_before, check_interval, stop_on_change,
  stop_condition, max_duration_seconds,
  last_data, changes_log, is_running,
  pc, wait_start, start_time, check_count, current_data, changes,
  stop_reason, result,
  now, source, fetches, cond_evals, cond_result, stop_calls, interrupted,
  exc, condition_holds, second, fleet, detect, tabela, basic

config == <<scheduled_time, minutes_before, check_interval, stop_on_change,
            stop_condition, max_duration_seconds, source>>

vars == <<scheduled_time, minutes_before, check_interval, stop_on_change,
          stop_condition, max_duration_seconds,
          last_data, changes_log, is_running,
          pc, wait_start, start_time, check_count, current_data, changes,
          stop_reason, result,
          now, source, fetches, cond_evals, cond_result, stop_calls,
          interrupted, exc, condition_holds, second, fleet, detect, tabela,
          basic>>

-----------------------------------------------------------------------------
(* Pure helpers.                                                           *)

DigitValue ==
  ("0" :> 0) @@ ("1" :> 1) @@ ("2" :> 2) @@ ("3" :> 3) @@ ("4" :> 4) @@
  ("5" :> 5) @@ ("6" :> 6) @@ ("7" :> 7) @@ ("8" :> 8) @@ ("9" :> 9)

(* time_str.split(':'): the parts between the colons, in order. *)
RECURSIVE SplitColon(_)
SplitColon(s) ==
  IF \A i \in 1..Len(s) : s[i] # ":"
    THEN <<s>>
    ELSE LET k == CHOOSE i \in 1..Len(s) :
                    s[i] = ":" /\ \A j \in 1..(i - 1) : s[j] # ":"
         IN <<SubSeq(s, 1, k - 1)>> \o SplitColon(SubSeq(s, k + 1, Len(s)))

(* int(part) succeeds on a non-empty run of decimal digits. *)
IsInt(p) == Len(p) > 0 /\ \A i \in 1..Len(p) : p[i] \in DOMAIN DigitValue

RECURSIVE IntOf(_)
IntOf(p) ==
  IF Len(p) = 0 THEN 0
  ELSE 10 * IntOf(SubSeq(p, 1, Len(p) - 1)) + DigitValue[p[Len(p)]]

(* hour, minute = map(int, time_str.split(':')) followed by                *)
(* now.replace(hour=hour, minute=minute, ...): the hour and minute, or the *)
(* exception that the unpacking, an int() or the replace() raises.         *)
Raised(e) == [raised |-> e]

IsRaised(v) == "raised" \in DOMAIN v

ParseHourMinute(time_str) ==
  LET parts == SplitColon(time_str)
  IN IF Len(parts) # 2 THEN Raised("ValueError")
     ELSE IF ~IsInt(parts[1]) \/ ~IsInt(parts[2]) THEN Raised("ValueError")
     ELSE IF IntOf(parts[1]) > 23 \/ IntOf(parts[2]) > 59
       THEN Raised("ValueError")
     ELSE [hour |-> IntOf(parts[1]), minute |-> IntOf(parts[2])]

(* now.replace(hour=h, minute=m, second=0, microsecond=0) *)
ReplaceTime(t, hm) ==
  (t - (t % SecondsPerDay)) + hm.hour * SecondsPerMinute * SecondsPerMinute
    + hm.minute * SecondsPerMinute

(* The start time as _parse_time (lines 58-74, never called) would move    *)
(* it: to the next day when it lies more than a minute back.               *)
WaitStartTime_rolled(t, hm, lead) ==
  LET today == ReplaceTime(t, hm) - lead * SecondsPerMinute
  IN IF today < t /\ t - today > SecondsPerMinute
       THEN today + SecondsPerDay
       ELSE today

(* The start time moved to the next day whenever it has passed. *)
WaitStartTime_nextDay(t, hm, lead) ==
  LET today == ReplaceTime(t, hm) - lead * SecondsPerMinute
  IN IF today < t THEN today + SecondsPerDay ELSE today

(* scheduled_today - timedelta(minutes=minutes_before) *)
WaitStartTime(t, hm, lead) == ReplaceTime(t, hm) - lead * SecondsPerMinute

(* datetime.now(BRASILIA_TZ).strftime("%H:%M:%S") *)
TimeStamp(t) == t % SecondsPerDay

(* data.get("error"): truthy when the key holds a non-empty string. *)
HasError(data) == data.error # None /\ data.error # ""

(* The outcome of the n-th call of _extract_flight_data. *)
Outcome(script, n) == script[Min(n, Len(script))]

(* The seconds that the call takes: what the script says, or anything up   *)
(* to MaxFetchTime when it does not say.                                   *)
FetchTimes(data) ==
  IF "took" \in DOMAIN data THEN {data.took} ELSE 0..MaxFetchTime

(* A list that looks at the status before the times. *)
fields_to_compare_statusFirst ==
  <<"status", "takeoff", "takeoff_scheduled", "landing", "landing_scheduled">>

(* Lines 215-221. *)
fields_to_compare ==
  <<"takeoff", "takeoff_scheduled", "landing", "landing_scheduled", "status">>

(* old_val or "N/A" *)
OrNA(v) == IF v = None \/ v = "" THEN "N/A" ELSE v

(* A test that also reports a value that was lost. *)
FieldChanged_anyDifference(old_data, new_data, f) ==
  old_data[f] # new_data[f]

(* Line 226: old_val != new_val and new_val is not None *)
FieldChanged(old_data, new_data, f) ==
  old_data[f] # new_data[f] /\ new_data[f] # None

RECURSIVE CompareFrom(_, _, _, _)
CompareFrom(old_data, new_data, ts, i) ==
  IF i > Len(fields_to_compare) THEN <<>>
  ELSE LET f == fields_to_compare[i]
           rest == CompareFrom(old_data, new_data, ts, i + 1)
       IN IF FieldChanged(old_data, new_data, f)
            THEN <<[field |-> f, old |-> OrNA(old_data[f]),
                    new |-> new_data[f], timestamp |-> ts]>> \o rest
            ELSE rest

(* A comparison that takes a missing old snapshot for an empty one. *)
_compare_data_unguarded(old_data, new_data, ts) ==
  CompareFrom(IF old_data = NoData THEN EmptyData ELSE old_data, new_data,
              ts, 1)

(* Lines 208-236. *)
_compare_data(old_data, new_data, ts) ==
  IF old_data = NoData THEN <<>> ELSE CompareFrom(old_data, new_data, ts, 1)

-----------------------------------------------------------------------------
(* The locals of a call of start() that has not been made. *)
IdleCall ==
  [pc |-> "idle", wait_start |-> 0, start_time |-> 0, check_count |-> 0,
   current_data |-> NoData, changes |-> <<>>, stop_reason |-> None,
   result |-> NoResult, exc |-> None, after_return |-> FALSE]

(* exemplo_integracao.py lines 25-32, 50: the table as the module builds   *)
(* it, with no arrival time for the flight. `at`, `fetches` and            *)
(* `cond_evals` record where start() was when the arrival time was filled  *)
(* in.                                                                     *)
MinhaTabela ==
  [horario_chegada |-> None, at |-> None, fetches |-> 0, cond_evals |-> 0]

(* No FlightMonitor has been built. *)
NoBasic == [pc |-> "none"]

(* Construction: FlightMonitorAdvanced.__init__ stores its arguments       *)
(* unchecked; start() has not been called yet.                             *)
ConstructedWith(scripts, conditions) ==
  /\ scheduled_time \in ScheduledTimes
  /\ minutes_before \in LeadMinutes
  /\ check_interval \in 1..MaxInterval
  /\ stop_on_change \in BOOLEAN
  /\ stop_condition \in conditions
  /\ max_duration_seconds \in 0..MaxDuration
  /\ last_data = NoData
  /\ changes_log = <<>>
  /\ is_running = FALSE
  /\ pc = "start"
  /\ wait_start = 0
  /\ start_time = 0
  /\ check_count = 0
  /\ current_data = NoData
  /\ changes = <<>>
  /\ stop_reason = None
  /\ result = NoResult
  /\ source \in scripts
  /\ fetches = 0
  /\ cond_evals = 0
  /\ cond_result = None
  /\ stop_calls = {}
  /\ interrupted = None
  /\ exc = None
  /\ condition_holds = FALSE
  /\ second = IdleCall
  /\ tabela = MinhaTabela
  /\ basic = NoBasic

ConstructedOn(scripts) == ConstructedWith(scripts, StopConditions)

Constructed == ConstructedOn(Scripts)

(* monitorar_multiplos_voos has not been called. *)
NoFleet == [monitor |-> <<>>]

(* _compare_data has not been called on its own. *)
NoDetect == [pc |-> "none"]

(* start() is called around midday. *)
Init ==
  Constructed /\ now \in InitialClocks /\ fleet = NoFleet /\ detect = NoDetect

(* start() is called around midday, or two seconds before midnight. *)
InitNight ==
  Constructed /\ now \in NightClocks /\ fleet = NoFleet /\ detect = NoDetect

(* Positions of start() inside its try block (lines 339-386). *)
LoopPcs == {"loop_top", "cond", "sleep", "fetch", "compare", "save"}

(* Positions of start() between the end of the wait and the return. *)
RunningPcs == {"baseline"} \cup LoopPcs

-----------------------------------------------------------------------------
(* _wait_until_start                                                       *)

(* A wait that takes every moment for the start time. *)
StartReached_always(t, start) == TRUE

(* Lines 88 and 102: the start time has been reached at clock value t. *)
StartReached(t, start) == t >= start

(* Lines 78-98: parse the scheduled time, start at once when the start     *)
(* time has been reached, otherwise enter the countdown.                   *)
WaitBegin ==
  /\ pc = "start"
  /\ LET hm == ParseHourMinute(scheduled_time)
     IN IF IsRaised(hm)
          THEN /\ exc' = hm.raised
               /\ pc' = "raised"
               /\ UNCHANGED wait_start
          ELSE /\ wait_start' = WaitStartTime(now, hm, minutes_before)
               /\ pc' = IF StartReached(now, wait_start') THEN "run"
                                                             ELSE "waiting"
               /\ UNCHANGED exc
  /\ UNCHANGED <<config, tabela, basic, detect, fleet, condition_holds,
                 second, last_data, changes_log, is_running, start_time,
                 check_count, current_data, changes, stop_reason, result, now,
                 fetches, cond_evals, cond_result, stop_calls, interrupted>>

(* Lines 102-112: one round of the countdown, time.sleep(1). *)
WaitTick ==
  /\ pc = "waiting"
  /\ ~StartReached(now, wait_start)
  /\ now' = now + 1
  /\ UNCHANGED <<config, tabela, basic, detect, fleet, condition_holds,
                 second, last_data, changes_log, is_running, pc, wait_start,
                 start_time, check_count, current_data, changes, stop_reason,
                 result, fetches, cond_evals, cond_result, stop_calls,
                 interrupted, exc>>

(* Lines 102, 114-115: the start time is reached, return True. *)
WaitDone ==
  /\ pc = "waiting"
  /\ StartReached(now, wait_start)
  /\ pc' = "run"
  /\ UNCHANGED <<config, tabela, basic, detect, fleet, condition_holds,
                 second, last_data, changes_log, is_running, wait_start,
                 start_time, check_count, current_data, changes, stop_reason,
                 result, now, fetches, cond_evals, cond_result, stop_calls,
                 interrupted, exc>>

-----------------------------------------------------------------------------
(* start                                                                   *)

(* Lines 316-320. *)
BeginRun ==
  /\ pc = "run"
  /\ is_running' = TRUE
  /\ start_time' = now
  /\ check_count' = 0
  /\ pc' = "baseline"
  /\ UNCHANGED <<config, tabela, basic, detect, fleet, condition_holds,
                 second, last_data, changes_log, wait_start, current_data,
                 changes, stop_reason, result, now, fetches, cond_evals,
                 cond_result, stop_calls, interrupted, exc>>

(* Line 314: the result when the wait was cancelled. *)
CancelledResult == [status |-> "cancelled", data |-> None, changes |-> <<>>]

(* Line 328: the result when the first read failed. *)
ErrorResult(data) == [status |-> "error", data |-> data, changes |-> <<>>]

(* A first read that is never taken to have failed. *)
BaselineFails_never(data) == FALSE

(* Line 326: the first read failed. *)
BaselineFails(data) == HasError(data)

(* The reason is left unset before the loop. *)
InitialStopReason_unset == None

(* Line 337. *)
InitialStopReason == "timeout"

(* Lines 323-337: the first read. *)
BaselineFetch ==
  /\ pc = "baseline"
  /\ LET data == Outcome(source, fetches + 1)
     IN \E d \in FetchTimes(data) :
          /\ now' = now + d
          /\ fetches' = fetches + 1
          /\ IF data.raises # None
               THEN /\ exc' = data.raises
                    /\ pc' = "raised"
                    /\ UNCHANGED <<current_data, check_count, last_data,
                                   stop_reason, result>>
               ELSE /\ current_data' = data
                    /\ check_count' = check_count + 1
                    /\ UNCHANGED exc
                    /\ IF BaselineFails(data)
                         THEN /\ result' = ErrorResult(data)
                              /\ pc' = "done"
                              /\ UNCHANGED <<last_data, stop_reason>>
                         ELSE /\ last_data' = data
                              /\ stop_reason' = InitialStopReason
                              /\ pc' = "loop_top"
                              /\ UNCHANGED result
  /\ UNCHANGED <<config, tabela, basic, detect, fleet, condition_holds,
                 second, changes_log, is_running, wait_start, start_time,
                 changes, cond_evals, cond_result, stop_calls, interrupted>>

(* Line 340: the loop condition. *)
LoopContinues ==
  is_running /\ (now - start_time) < max_duration_seconds

LoopTop ==
  /\ pc = "loop_top"
  /\ pc' = IF ~LoopContinues THEN "final"
           ELSE IF stop_condition = None THEN "sleep" ELSE "cond"
  /\ UNCHANGED <<config, tabela, basic, detect, fleet, condition_holds,
                 second, last_data, changes_log, is_running, wait_start,
                 start_time, check_count, current_data, changes, stop_reason,
                 result, now, fetches, cond_evals, cond_result, stop_calls,
                 interrupted, exc>>

(* exemplo_integracao.py lines 44-47: the table holds an arrival time.     *)
chegada_confirmada == tabela.horario_chegada # None

(* What the injected predicate may do when called: return its truth value  *)
(* or raise; verificar_chegada_tabela (exemplo_integracao.py lines 59-61)   *)
(* returns what the table says.                                            *)
ConditionOutcomes(cond) ==
  IF cond = "never" THEN {"False"}
  ELSE IF cond = "verificar_chegada_tabela"
    THEN {IF chegada_confirmada THEN "True" ELSE "False"}
    ELSE {IF condition_holds THEN "True" ELSE "False", "raise"}

(* The predicate's value is ignored. *)
ConditionStops_never(r) == FALSE

(* Line 343: the predicate's value ends the loop. *)
ConditionStops(r) == r = "True"

(* Lines 343-346: the external stop condition. *)
EvalCondition ==
  /\ pc = "cond"
  /\ \E d \in 0..MaxCondTime, r \in ConditionOutcomes(stop_condition) :
       /\ now' = now + d
       /\ cond_evals' = cond_evals + 1
       /\ cond_result' = r
       /\ IF r = "raise"
            THEN /\ exc' = "ConditionError"
                 /\ pc' = "raised"
                 /\ UNCHANGED stop_reason
            ELSE IF ConditionStops(r)
              THEN /\ stop_reason' = "condition_met"
                   /\ pc' = "final"
                   /\ UNCHANGED exc
              ELSE /\ pc' = "sleep"
                   /\ UNCHANGED <<stop_reason, exc>>
  /\ UNCHANGED <<config, tabela, basic, detect, fleet, condition_holds,
                 second, last_data, changes_log, is_running, wait_start,
                 start_time, check_count, current_data, changes, result,
                 fetches, stop_calls, interrupted>>

(* Line 349. *)
Remaining == max_duration_seconds - (now - start_time)

(* A sleep of the whole interval, whatever time is left. *)
SleepTime_whole == check_interval

(* A sleep of the time elapsed, not of the time left. *)
SleepTime_elapsed == Min(check_interval, now - start_time)

(* Line 353: the argument of time.sleep. *)
SleepTime == Min(check_interval, Remaining)

(* Lines 349-351: no time is left. *)
NoTimeLeft ==
  /\ pc = "sleep"
  /\ Remaining <= 0
  /\ pc' = "final"
  /\ UNCHANGED <<config, tabela, basic, detect, fleet, condition_holds,
                 second, last_data, changes_log, is_running, wait_start,
                 start_time, check_count, current_data, changes, stop_reason,
                 result, now, fetches, cond_evals, cond_result, stop_calls,
                 interrupted, exc>>

(* Lines 349-357: sleep, then look at is_running. *)
Sleep ==
  /\ pc = "sleep"
  /\ Remaining > 0
  /\ now' = now + SleepTime
  /\ IF ~is_running
       THEN /\ stop_reason' = "stopped"
            /\ pc' = "final"
       ELSE /\ pc' = "fetch"
            /\ UNCHANGED stop_reason
  /\ UNCHANGED <<config, tabela, basic, detect, fleet, condition_holds,
                 second, last_data, changes_log, is_running, wait_start,
                 start_time, check_count, current_data, changes, result,
                 fetches, cond_evals, cond_result, stop_calls, interrupted,
                 exc>>

(* A failed read that is processed like any other. *)
SkipsTick_never(data) == FALSE

(* Lines 364-367: a failed read skips the rest of the tick. *)
SkipsTick(data) == HasError(data)

(* A tick that is not counted. *)
NextCheckCount_uncounted == check_count

(* Line 359: check_count += 1, before the read. *)
NextCheckCount == check_count + 1

(* Lines 359-367: count the check, read the source, skip the tick on an    *)
(* error.                                                                  *)
Fetch ==
  /\ pc = "fetch"
  /\ LET data == Outcome(source, fetches + 1)
     IN \E d \in FetchTimes(data) :
          /\ now' = now + d
          /\ fetches' = fetches + 1
          /\ check_count' = NextCheckCount
          /\ IF data.raises # None
               THEN /\ exc' = data.raises
                    /\ pc' = "raised"
                    /\ UNCHANGED current_data
               ELSE /\ current_data' = data
                    /\ pc' = IF SkipsTick(data) THEN "loop_top" ELSE "compare"
                    /\ UNCHANGED exc
  /\ UNCHANGED <<config, tabela, basic, detect, fleet, condition_holds,
                 second, last_data, changes_log, is_running, wait_start,
                 start_time, changes, stop_reason, result, cond_evals,
                 cond_result, stop_calls, interrupted>>

(* Lines 370-373: diff against last_data and extend the log. *)
Compare ==
  /\ pc = "compare"
  /\ changes' = _compare_data(last_data, current_data, TimeStamp(now))
  /\ changes_log' = changes_log \o changes'
  /\ pc' = "save"
  /\ UNCHANGED <<config, tabela, basic, detect, fleet, condition_holds,
                 second, last_data, is_running, wait_start, start_time,
                 check_count, current_data, stop_reason, result, now, fetches,
                 cond_evals, cond_result, stop_calls, interrupted, exc>>

(* The flag is ignored. *)
StopsOnChange_never == FALSE

(* Lines 371, 375: leave the loop on this tick's changes. *)
StopsOnChange == changes # <<>> /\ stop_on_change

(* Lines 375-385: stop on a change, and save the data read. *)
Save ==
  /\ pc = "save"
  /\ last_data' = current_data
  /\ IF StopsOnChange
       THEN /\ stop_reason' = "change_detected"
            /\ pc' = "final"
       ELSE /\ pc' = "loop_top"
            /\ UNCHANGED stop_reason
  /\ UNCHANGED <<config, tabela, basic, detect, fleet, condition_holds,
                 second, changes_log, is_running, wait_start, start_time,
                 check_count, current_data, changes, result, now, fetches,
                 cond_evals, cond_result, stop_calls, interrupted, exc>>

(* Lines 410-416: the result of a run that went through the loop. *)
FinalResult ==
  [status |-> stop_reason, data |-> last_data, changes |-> changes_log,
   duration_seconds |-> now - start_time, total_checks |-> check_count]

(* Lines 391-416. *)
Finish ==
  /\ pc = "final"
  /\ is_running' = FALSE
  /\ result' = FinalResult
  /\ pc' = "done"
  /\ UNCHANGED <<config, tabela, basic, detect, fleet, condition_holds,
                 second, last_data, changes_log, wait_start, start_time,
                 check_count, current_data, changes, stop_reason, now,
                 fetches, cond_evals, cond_result, stop_calls, interrupted,
                 exc>>

-----------------------------------------------------------------------------
(* The other thread and the terminal: stop() and Ctrl+C.                   *)

(* Lines 289-291, called from another thread while start() is at pc, in    *)
(* the wait or between the end of the wait and the end of the loop. A call *)
(* made earlier or later changes nothing that start() reads: is_running    *)
(* is assigned at lines 317 and 391 before it is read again.               *)
Stop ==
  /\ pc \in {"waiting"} \cup RunningPcs
  /\ Cardinality(stop_calls) < MaxStops
  /\ is_running' = FALSE
  /\ stop_calls' = stop_calls \cup {[at |-> pc, t |-> now]}
  /\ UNCHANGED <<config, tabela, basic, detect, fleet, condition_holds,
                 second, last_data, changes_log, pc, wait_start, start_time,
                 check_count, current_data, changes, stop_reason, result, now,
                 fetches, cond_evals, cond_result, interrupted, exc>>

(* Lines 117-119: KeyboardInterrupt inside the countdown. *)
InterruptWait ==
  /\ pc = "waiting"
  /\ interrupted' = pc
  /\ result' = CancelledResult
  /\ pc' = "done"
  /\ UNCHANGED <<config, tabela, basic, detect, fleet, condition_holds,
                 second, last_data, changes_log, is_running, wait_start,
                 start_time, check_count, current_data, changes, stop_reason,
                 now, fetches, cond_evals, cond_result, stop_calls, exc>>

(* Lines 387-389: KeyboardInterrupt inside the loop's try block. *)
InterruptLoop ==
  /\ pc \in LoopPcs
  /\ interrupted' = pc
  /\ stop_reason' = "user_interrupt"
  /\ pc' = "final"
  /\ UNCHANGED <<config, tabela, basic, detect, fleet, condition_holds,
                 second, last_data, changes_log, is_running, wait_start,
                 start_time, check_count, current_data, changes, result, now,
                 fetches, cond_evals, cond_result, stop_calls, exc>>

(* KeyboardInterrupt anywhere else in start(): nothing catches it. *)
InterruptOutside ==
  /\ pc \in {"start", "run", "baseline", "final"}
  /\ interrupted' = pc
  /\ exc' = "KeyboardInterrupt"
  /\ pc' = "raised"
  /\ UNCHANGED <<config, tabela, basic, detect, fleet, condition_holds,
                 second, last_data, changes_log, is_running, wait_start,
                 start_time, check_count, current_data, changes, stop_reason,
                 result, now, fetches, cond_evals, cond_result, stop_calls>>

(* The world outside: what the stop condition looks at becomes true, as   *)
(* when atualizar_horario_chegada fills the table's arrival time           *)
(* (exemplo_integracao.py lines 38-47).                                    *)
ConditionTurnsTrue ==
  /\ stop_condition # None
  /\ ~condition_holds
  /\ pc \notin {"done", "raised"}
  /\ condition_holds' = TRUE
  /\ UNCHANGED <<config, tabela, basic, detect, fleet, second, last_data,
                 changes_log, is_running, pc, wait_start, start_time,
                 check_count, current_data, changes, stop_reason, result, now,
                 fetches, cond_evals, cond_result, stop_calls, interrupted,
                 exc>>

Next ==
  \/ WaitBegin
  \/ WaitTick
  \/ WaitDone
  \/ BeginRun
  \/ BaselineFetch
  \/ LoopTop
  \/ EvalCondition
  \/ NoTimeLeft
  \/ Sleep
  \/ Fetch
  \/ Compare
  \/ Save
  \/ Finish
  \/ Stop
  \/ InterruptWait
  \/ InterruptLoop
  \/ InterruptOutside
  \/ ConditionTurnsTrue

Spec == Init /\ [][Next]_vars

(* The same program, with runs that go over midnight. *)
SpecNight == InitNight /\ [][Next]_vars

-----------------------------------------------------------------------------
(* Vocabulary of the properties.                                           *)

(* The spec's six stop reasons. *)
SpecStopReasons ==
  {"condition_met", "change_detected", "timeout", "user_cancelled", "error",
   "cancelled_before_start"}

(* The statuses that this code uses for a run ended by the user: the       *)
(* spec's user_cancelled, and the code's names for a stop() seen after a   *)
(* sleep and for Ctrl+C in the loop.                                       *)
UserCancelled == {"user_cancelled", "stopped", "user_interrupt"}

(* start() has returned a result. *)
Returned == pc = "done"

Elapsed == now - start_time

(* The last of the first n reads that the code accepted (it did not raise  *)
(* and carries no error), NoData when there is none.                       *)
RECURSIVE LastGood(_)
LastGood(n) ==
  IF n = 0 THEN NoData
  ELSE LET data == Outcome(source, n)
       IN IF data.raises = None /\ ~HasError(data) THEN data
          ELSE LastGood(n - 1)

-----------------------------------------------------------------------------
(* C1: if stop() is called while start() is in the pre-start wait, the run *)
(* ends as user-cancelled within one second: it is not still waiting more  *)
(* than a second after the call, it never enters Running, it performs no   *)
(* fetch, and what it returns is a cancellation.                           *)
C1_StopWhileWaitingCancels ==
  \A c \in stop_calls :
    c.at = "waiting" =>
      /\ fetches = 0
      /\ pc \notin RunningPcs
      /\ (pc = "waiting" => now <= c.t + 1)
      /\ (Returned => result.status \in UserCancelled \cup {"cancelled"})

(* C2: a stop request made at any point of the Running phase (stop() at    *)
(* the top of a tick, during the sleep or during a fetch) makes the run's  *)
(* final stop reason user-cancelled, whatever other stop rule holds. The   *)
(* formula states the claim where it asks least: the run returns before    *)
(* the deadline, so that the deadline rule does not hold as well.          *)
C2_StopRequestWins ==
  (/\ Returned
   /\ \E c \in stop_calls : c.at \in LoopPcs
   /\ Elapsed < max_duration_seconds)
    => result.status \in UserCancelled

(* C3: when the first fetch returns an error the run goes straight to      *)
(* Stopped(error): the result carries the failed read as its data and an   *)
(* empty change list, last_data stays None, and no second fetch is made.   *)
C3_BaselineErrorIsFatal ==
  (fetches >= 1 /\ HasError(Outcome(source, 1))) =>
    /\ Returned
    /\ result.status = "error"
    /\ result.data = Outcome(source, 1)
    /\ result.changes = <<>>
    /\ last_data = NoData
    /\ changes_log = <<>>
    /\ fetches = 1

C3_Witness ==
  Returned /\ fetches = 1 /\ HasError(Outcome(source, 1))

(* C4: a fetch error after the baseline does not end the run: no run that  *)
(* got past the baseline ends with status error, between ticks last_data   *)
(* is the last read that succeeded, and the changes of a tick are          *)
(* _compare_data of that read and the tick's read; with a source that      *)
(* succeeds on tick 1, fails on ticks 2 and 3 and succeeds on tick 4, the  *)
(* changes of tick 4 are those between the reads of tick 1 and tick 4.     *)
C4_ErrorTickKeepsBaseline ==
  /\ (Returned /\ fetches >= 2) => result.status # "error"
  /\ pc \in {"loop_top", "cond", "sleep", "fetch", "compare"}
       => last_data = LastGood(IF pc = "compare" THEN fetches - 1 ELSE fetches)
  /\ pc = "save"
       => changes = _compare_data(LastGood(fetches - 1), current_data,
                                  TimeStamp(now))
  /\ (source = FailMid /\ fetches = 4 /\ pc = "save")
       => /\ changes = _compare_data(EnRoute, Landed, TimeStamp(now))
          /\ Len(changes) = 2
          /\ check_count = 4

C4_Witness ==
  /\ source = FailMid
  /\ fetches = 4
  /\ pc = "save"
  /\ changes_log = changes
  /\ Len(changes) = 2

(* C5: with stop_on_change set the run stops at the first tick whose read  *)
(* yields a change: once the log is non-empty no further fetch is made,    *)
(* the log holds that tick's changes only, and a run that returns without  *)
(* having been interrupted reports change_detected; with a source whose    *)
(* landing goes from None to "14:32" on tick 3 the run stops at tick 3     *)
(* with exactly one change in the log.                                     *)
C5_StopsOnFirstChange ==
  /\ (stop_on_change /\ changes_log # <<>>)
       => /\ pc \in {"save", "final", "done", "raised"}
          /\ changes_log = changes
          /\ changes = _compare_data(LastGood(fetches - 1),
                                     Outcome(source, fetches),
                                     changes[1].timestamp)
          /\ \A n \in 2..(fetches - 1) :
               HasError(Outcome(source, n))
                 \/ _compare_data(LastGood(n - 1), Outcome(source, n), 0)
                      = <<>>
          /\ (Returned /\ interrupted = None)
               => result.status = "change_detected"
  /\ (stop_on_change /\ source = LandingAtTick3)
       => /\ fetches <= 3
          /\ (Returned /\ fetches = 3 /\ interrupted = None)
               => /\ result.status = "change_detected"
                  /\ Len(result.changes) = 1
                  /\ result.changes[1].field = "landing"
                  /\ result.changes[1].old = "N/A"
                  /\ result.changes[1].new = "14:32"
                  /\ result.total_checks = 3

C5_Witness ==
  /\ stop_on_change
  /\ source = LandingAtTick3
  /\ Returned
  /\ result.status = "change_detected"
  /\ fetches = 3

(* The longest that one blocking call made after the deadline check can    *)
(* carry the clock past the deadline: a read begun at the deadline, or a   *)
(* stop condition called one second before it.                             *)
MaxOvershoot ==
  IF MaxFetchTime >= MaxCondTime - 1 THEN MaxFetchTime ELSE MaxCondTime - 1

(* C6: without a stop request a run reports timeout only once the elapsed  *)
(* time has reached max_duration_seconds, and no later than one blocking   *)
(* call after it; no sleep ends past the deadline, max_duration_seconds    *)
(* being a multiple of check_interval or not; and a run on a source that   *)
(* never changes, with no stop request, no interrupt and a stop condition  *)
(* that never returned true, ends with timeout.                            *)
C6_TimeoutAtDeadline ==
  /\ (pc = "fetch" \/ stop_reason = "stopped")
       => Elapsed <= max_duration_seconds
  /\ (Returned /\ result.status = "timeout" /\ stop_calls = {})
       => /\ result.duration_seconds >= max_duration_seconds
          /\ result.duration_seconds <= max_duration_seconds + MaxOvershoot
  /\ (Returned /\ source = Steady /\ stop_calls = {} /\ interrupted = None
        /\ cond_result # "True")
       => result.status = "timeout"

C6_Witness ==
  /\ Returned
  /\ source = Steady
  /\ stop_calls = {}
  /\ interrupted = None
  /\ stop_condition # None
  /\ result.status = "timeout"
  /\ max_duration_seconds % check_interval # 0
  /\ result.duration_seconds = max_duration_seconds
  /\ fetches >= 3

(* C7: the external stop condition is evaluated at the top of every tick,  *)
(* before the tick's sleep and fetch; when it returns true the run ends at *)
(* once with condition_met, and neither that tick's fetch nor any later    *)
(* one is made.                                                            *)
C7_ConditionEndsRun ==
  /\ cond_result = "True"
       => /\ stop_reason = "condition_met"
          /\ pc \in {"final", "done", "raised"}
          /\ fetches = cond_evals
          /\ Returned => /\ result.status = "condition_met"
                         /\ result.total_checks = cond_evals
  /\ (stop_condition # None /\ pc \in {"sleep", "fetch"})
       => /\ cond_evals = fetches
          /\ cond_result = "False"

C7_Witness ==
  /\ Returned
  /\ cond_result = "True"
  /\ result.status = "condition_met"
  /\ cond_evals >= 2
  /\ Elapsed < max_duration_seconds

(* C8: no exception escapes start(): not for a malformed scheduled time    *)
(* string, a stop condition that raises, a failing fetch, or an interrupt  *)
(* during the wait or the loop. The formula leaves aside the one case the  *)
(* claim does not list, Ctrl+C outside the wait and the loop.              *)
C8_NoExceptionEscapes ==
  exc # None
    => (exc = "KeyboardInterrupt"
          /\ interrupted \notin LoopPcs \cup {"waiting"})

(* C9: the stop reason of every result returned by start() is one of the   *)
(* spec's six values.                                                      *)
C9_StopReasonInSpecEnumeration ==
  Returned => result.status \in SpecStopReasons

(* The seven statuses that start() can return (lines 314, 328, 337, 345,   *)
(* 356, 377, 389).                                                         *)
CodeStatuses ==
  {"cancelled", "error", "timeout", "condition_met", "stopped",
   "change_detected", "user_interrupt"}

(* C9, amended: the status of every result returned by start() is one of   *)
(* cancelled, error, timeout, condition_met, stopped, change_detected and  *)
(* user_interrupt.                                                         *)
C9_StatusInCodeVocabulary ==
  Returned => result.status \in CodeStatuses

C9_Witness ==
  /\ Returned
  /\ result.status = "stopped"
  /\ \E c \in stop_calls : c.at = "sleep"

(* C10: every result returned by start(), whatever its stop reason, has    *)
(* the five components data, changes, status, duration_seconds and         *)
(* total_checks.                                                           *)
C10_ResultHasFiveComponents ==
  Returned =>
    DOMAIN result
      = {"data", "changes", "status", "duration_seconds", "total_checks"}

(* C12: no fetch is performed at a moment when the time elapsed since the  *)
(* run started has already reached the maximum duration: a deadline        *)
(* reached during the sleep ends the run before the tick's fetch.          *)
C12_NoFetchAtDeadline ==
  pc = "fetch" => Elapsed < max_duration_seconds

(* C13: last_data is either unset or a snapshot of a read that did not     *)
(* fail: neither a transport failure (error) nor an unparseable payload    *)
(* (parse_error) is ever stored as the last-known-good snapshot.           *)
C13_LastDataIsGoodSnapshot ==
  last_data # NoData
    => /\ last_data.error = None
       /\ last_data.parse_error = None

(* The start time the documentation promises: the scheduled time on the    *)
(* day of the call, less the lead time.                                    *)
HourMinuteOf == [s \in ScheduledTimes |-> ParseHourMinute(s)]

WellFormedTime == ~IsRaised(HourMinuteOf[scheduled_time])

StartAt ==
  ReplaceTime(now, HourMinuteOf[scheduled_time])
    - minutes_before * SecondsPerMinute

InvalidConfiguration ==
  \/ ~WellFormedTime
  \/ check_interval <= 0
  \/ max_duration_seconds <= 0

(* C17: an invalid configuration is rejected when the monitor is built, so *)
(* no run with one ever waits, runs or fetches.                            *)
C17_InvalidConfigurationNeverRuns ==
  InvalidConfiguration
    => /\ fetches = 0
       /\ pc \notin {"waiting", "run"} \cup RunningPcs

(* The stop reason that the precedence external condition, then stop on    *)
(* change, then deadline gives when the loop is left after this tick's     *)
(* changes tick_changes.                                                   *)
ReasonByPrecedence(tick_changes) ==
  IF stop_condition # None /\ condition_holds THEN "condition_met"
  ELSE IF stop_on_change /\ tick_changes # <<>> THEN "change_detected"
  ELSE "timeout"

(* C18: when the loop is left, with no stop request and no interrupt, by   *)
(* the deadline test or on a tick's changes, the stop reason is that of    *)
(* the highest rule that holds at that moment: condition_met when the      *)
(* external condition is true, else change_detected when the tick          *)
(* produced changes and stop on change is set, else timeout.               *)
C18_StopReasonFollowsPrecedence ==
  [][(/\ pc \in {"loop_top", "save"}
      /\ pc' = "final"
      /\ is_running
      /\ interrupted' = None
      /\ max_duration_seconds > 0)
       => stop_reason'
            = ReasonByPrecedence(IF pc = "save" THEN changes ELSE <<>>)]_vars

(* s is a prefix of t. *)
IsPrefix(s, t) == Len(s) <= Len(t) /\ SubSeq(t, 1, Len(s)) = s

(* C20, first half: the change log only grows at its end. *)
C20_LogIsAppendOnly == [][IsPrefix(changes_log, changes_log')]_vars

(* C20: the timestamps of the entries of the change log never decrease     *)
(* along the log.                                                          *)
C20_LogIsTimeOrdered ==
  \A i \in 1..(Len(changes_log) - 1) :
    changes_log[i].timestamp <= changes_log[i + 1].timestamp

-----------------------------------------------------------------------------
(* A second call of start() on the same instance, from another thread      *)
(* while the first call waits or runs, or after the first call returned.   *)
(* Its locals are the fields of `second`; last_data, changes_log and       *)
(* is_running are the instance's and are shared with the first call.       *)
(* KeyboardInterrupt is delivered to the main thread only, so the second   *)
(* call has no interrupt actions.                                          *)

firstCall ==
  <<pc, wait_start, start_time, check_count, current_data, changes,
    stop_reason, result, cond_evals, cond_result, stop_calls, interrupted,
    exc>>

(* Line 293: start() is entered; nothing in it looks at is_running or at   *)
(* an earlier call.                                                        *)
SecondStart ==
  /\ second.pc = "idle"
  /\ pc \in {"waiting", "done"} \cup RunningPcs
  /\ second' = [second EXCEPT !.pc = "start", !.after_return = (pc = "done")]
  /\ UNCHANGED <<config, tabela, basic, detect, fleet, condition_holds,
                 firstCall, last_data, changes_log, is_running, now, fetches>>

(* Lines 78-98. *)
SecondWaitBegin ==
  /\ second.pc = "start"
  /\ LET hm == ParseHourMinute(scheduled_time)
     IN IF IsRaised(hm)
          THEN second' = [second EXCEPT !.exc = hm.raised, !.pc = "raised"]
          ELSE LET start == WaitStartTime(now, hm, minutes_before)
               IN second' =
                    [second EXCEPT
                       !.wait_start = start,
                       !.pc = IF StartReached(now, start) THEN "run"
                                                          ELSE "waiting"]
  /\ UNCHANGED <<config, tabela, basic, detect, fleet, condition_holds,
                 firstCall, last_data, changes_log, is_running, now, fetches>>

(* Lines 102-112. *)
SecondWaitTick ==
  /\ second.pc = "waiting"
  /\ ~StartReached(now, second.wait_start)
  /\ now' = now + 1
  /\ UNCHANGED <<config, tabela, basic, detect, fleet, condition_holds,
                 firstCall, second, last_data, changes_log, is_running,
                 fetches>>

(* Lines 102, 114-115. *)
SecondWaitDone ==
  /\ second.pc = "waiting"
  /\ StartReached(now, second.wait_start)
  /\ second' = [second EXCEPT !.pc = "run"]
  /\ UNCHANGED <<config, tabela, basic, detect, fleet, condition_holds,
                 firstCall, last_data, changes_log, is_running, now, fetches>>

(* Lines 316-320. *)
SecondBeginRun ==
  /\ second.pc = "run"
  /\ is_running' = TRUE
  /\ second' = [second EXCEPT !.start_time = now, !.check_count = 0,
                              !.pc = "baseline"]
  /\ UNCHANGED <<config, tabela, basic, detect, fleet, condition_holds,
                 firstCall, last_data, changes_log, now, fetches>>

(* Lines 323-337. *)
SecondBaselineFetch ==
  /\ second.pc = "baseline"
  /\ \E d \in 0..MaxFetchTime :
       LET data == Outcome(source, fetches + 1)
       IN /\ now' = now + d
          /\ fetches' = fetches + 1
          /\ IF data.raises # None
               THEN /\ second' = [second EXCEPT !.exc = data.raises,
                                                !.pc = "raised"]
                    /\ UNCHANGED last_data
               ELSE IF BaselineFails(data)
                 THEN /\ second' =
                           [second EXCEPT
                              !.current_data = data,
                              !.check_count = second.check_count + 1,
                              !.result = ErrorResult(data),
                              !.pc = "done"]
                      /\ UNCHANGED last_data
                 ELSE /\ second' =
                           [second EXCEPT
                              !.current_data = data,
                              !.check_count = second.check_count + 1,
                              !.stop_reason = InitialStopReason,
                              !.pc = "loop_top"]
                      /\ last_data' = data
  /\ UNCHANGED <<config, tabela, basic, detect, fleet, condition_holds,
                 firstCall, changes_log, is_running>>

(* Line 340. *)
SecondLoopTop ==
  /\ second.pc = "loop_top"
  /\ second' =
       [second EXCEPT
          !.pc = IF ~(is_running
                        /\ (now - second.start_time) < max_duration_seconds)
                   THEN "final"
                 ELSE IF stop_condition = None THEN "sleep" ELSE "cond"]
  /\ UNCHANGED <<config, tabela, basic, detect, fleet, condition_holds,
                 firstCall, last_data, changes_log, is_running, now, fetches>>

(* Lines 342-346. *)
SecondEvalCondition ==
  /\ second.pc = "cond"
  /\ \E d \in 0..MaxCondTime, r \in ConditionOutcomes(stop_condition) :
       /\ now' = now + d
       /\ second' =
            IF r = "raise"
              THEN [second EXCEPT !.exc = "ConditionError", !.pc = "raised"]
            ELSE IF ConditionStops(r)
              THEN [second EXCEPT !.stop_reason = "condition_met",
                                  !.pc = "final"]
            ELSE [second EXCEPT !.pc = "sleep"]
  /\ UNCHANGED <<config, tabela, basic, detect, fleet, condition_holds,
                 firstCall, last_data, changes_log, is_running, fetches>>

(* Line 349, for the second call. *)
SecondRemaining == max_duration_seconds - (now - second.start_time)

(* Lines 349-351. *)
SecondNoTimeLeft ==
  /\ second.pc = "sleep"
  /\ SecondRemaining <= 0
  /\ second' = [second EXCEPT !.pc = "final"]
  /\ UNCHANGED <<config, tabela, basic, detect, fleet, condition_holds,
                 firstCall, last_data, changes_log, is_running, now, fetches>>

(* Lines 349-357. *)
SecondSleep ==
  /\ second.pc = "sleep"
  /\ SecondRemaining > 0
  /\ now' = now + Min(check_interval, SecondRemaining)
  /\ second' =
       IF ~is_running
         THEN [second EXCEPT !.stop_reason = "stopped", !.pc = "final"]
         ELSE [second EXCEPT !.pc = "fetch"]
  /\ UNCHANGED <<config, tabela, basic, detect, fleet, condition_holds,
                 firstCall, last_data, changes_log, is_running, fetches>>

(* Lines 359-367. *)
SecondFetch ==
  /\ second.pc = "fetch"
  /\ \E d \in 0..MaxFetchTime :
       LET data == Outcome(source, fetches + 1)
       IN /\ now' = now + d
          /\ fetches' = fetches + 1
          /\ second' =
               IF data.raises # None
                 THEN [second EXCEPT
                         !.check_count = second.check_count + 1,
                         !.exc = data.raises,
                         !.pc = "raised"]
                 ELSE [second EXCEPT
                         !.check_count = second.check_count + 1,
                         !.current_data = data,
                         !.pc = IF SkipsTick(data) THEN "loop_top"
                                                   ELSE "compare"]
  /\ UNCHANGED <<config, tabela, basic, detect, fleet, condition_holds,
                 firstCall, last_data, changes_log, is_running>>

(* Lines 370-373. *)
SecondCompare ==
  /\ second.pc = "compare"
  /\ LET found == _compare_data(last_data, second.current_data,
                                TimeStamp(now))
     IN /\ second' = [second EXCEPT !.changes = found, !.pc = "save"]
        /\ changes_log' = changes_log \o found
  /\ UNCHANGED <<config, tabela, basic, detect, fleet, condition_holds,
                 firstCall, last_data, is_running, now, fetches>>

(* Lines 375-385. *)
SecondSave ==
  /\ second.pc = "save"
  /\ last_data' = second.current_data
  /\ second' =
       IF second.changes # <<>> /\ stop_on_change
         THEN [second EXCEPT !.stop_reason = "change_detected",
                             !.pc = "final"]
         ELSE [second EXCEPT !.pc = "loop_top"]
  /\ UNCHANGED <<config, tabela, basic, detect, fleet, condition_holds,
                 firstCall, changes_log, is_running, now, fetches>>

(* Lines 391-416. *)
SecondFinish ==
  /\ second.pc = "final"
  /\ is_running' = FALSE
  /\ second' =
       [second EXCEPT
          !.result = [status |-> second.stop_reason,
                      data |-> last_data,
                      changes |-> changes_log,
                      duration_seconds |-> now - second.start_time,
                      total_checks |-> second.check_count],
          !.pc = "done"]
  /\ UNCHANGED <<config, tabela, basic, detect, fleet, condition_holds,
                 firstCall, last_data, changes_log, now, fetches>>

NextTwo ==
  \/ Next
  \/ SecondStart
  \/ SecondWaitBegin
  \/ SecondWaitTick
  \/ SecondWaitDone
  \/ SecondBeginRun
  \/ SecondBaselineFetch
  \/ SecondLoopTop
  \/ SecondEvalCondition
  \/ SecondNoTimeLeft
  \/ SecondSleep
  \/ SecondFetch
  \/ SecondCompare
  \/ SecondSave
  \/ SecondFinish

(* Two calls of start() on a monitor of a flight whose status flaps, that  *)
(* stops on a change or on its condition, with a one-second interval and   *)
(* a one-second maximum duration; the first call is made two seconds       *)
(* before the start time.                                                  *)
InitTwo ==
  /\ Init
  /\ scheduled_time = <<"1", "2", ":", "0", "0">>
  /\ check_interval = 1
  /\ max_duration_seconds = 1
  /\ stop_on_change
  /\ stop_condition # None
  /\ now = 42298
  /\ source = Flapping

SpecTwo == InitTwo /\ [][NextTwo]_vars

(* C19: at most one run of an instance is active at a time: two calls of   *)
(* start() are never both inside the polling loop.                         *)
C19_OneRunAtATime ==
  ~(pc \in LoopPcs /\ second.pc \in LoopPcs)

(* C11: after a run that went through its loop has ended and start() has   *)
(* returned, a second call of start() on the instance reads nothing from   *)
(* the source.                                                             *)
C11_NoSecondRun ==
  (/\ second.after_return
   /\ result.status \in {"timeout", "change_detected", "condition_met"})
    => second.check_count = 0

-----------------------------------------------------------------------------
(* What get_last_data() and get_changes_log() (lines 281-287) return to a  *)
(* thread that calls them now: the instance's own objects.                 *)
get_last_data == last_data

get_changes_log == changes_log

(* C21: a reader never sees the change log with the changes of a tick      *)
(* while last_data is still the snapshot of the tick before.               *)
C21_ReadersSeeCompletedTick ==
  ~(/\ pc = "save"
    /\ changes # <<>>
    /\ SubSeq(get_changes_log,
              Len(get_changes_log) - Len(changes) + 1,
              Len(get_changes_log)) = changes
    /\ get_last_data # current_data)

-----------------------------------------------------------------------------
(* monitorar_multiplos_voos (exemplo_integracao.py lines 119-152): one     *)
(* thread per flight, each building its own monitor and calling start().   *)
(* fleet.monitor[i] holds the attributes of monitor i and the locals of    *)
(* its start(); fleet.heap holds the list objects, so that an attribute    *)
(* holding a list holds a reference into it. Every monitor reads its own   *)
(* page and measures the time its own sleeps took; the start time has      *)
(* been reached when the threads start.                                    *)

Instances == {"PSCBJ", "PRABC"}

(* The lists that can exist: one for each monitor, and one that belongs    *)
(* to no monitor.                                                          *)
ListRefs == Instances \cup {"shared"}

(* One list for the whole class. *)
NewList_shared(i) == "shared"

(* Line 52, self.changes_log = []: a new list for each monitor. *)
NewList(i) == i

FleetScripts == {Steady, FailMid, LandingAtTick3, Flapping}

(* Before the thread of flight i runs. *)
Unbuilt(script) ==
  [pc |-> "new", script |-> script, last_data |-> NoData,
   changes_log |-> None, is_running |-> FALSE, elapsed |-> 0,
   fetched |-> 0, check_count |-> 0, current_data |-> NoData,
   changes |-> <<>>, stop_reason |-> None, result |-> NoResult]

(* The fleet when monitorar_multiplos_voos starts its threads; every       *)
(* monitor gets the same interval and flag (lines 133-139).                *)
FleetStarts ==
  {[monitor |-> m, heap |-> [r \in ListRefs |-> <<>>],
    check_interval |-> ci, max_duration_seconds |-> md,
    stop_on_change |-> sc] :
     m \in [Instances -> {Unbuilt(s) : s \in FleetScripts}],
     ci \in 1..MaxInterval, md \in 1..MaxDuration, sc \in BOOLEAN}

single ==
  <<config, tabela, basic, condition_holds, second, firstCall, last_data,
    changes_log, is_running, now, fetches, detect>>

(* monitor i after a step that leaves it as m and the heap as h. *)
FleetWith(i, m, h) ==
  [fleet EXCEPT !.monitor = [fleet.monitor EXCEPT ![i] = m], !.heap = h]

(* Lines 132-139 and 44-53: the thread builds its monitor. *)
FleetConstruct(i) ==
  /\ fleet.monitor[i].pc = "new"
  /\ fleet' =
       FleetWith(i,
                 [fleet.monitor[i] EXCEPT !.pc = "run",
                                          !.last_data = NoData,
                                          !.changes_log = NewList(i),
                                          !.is_running = FALSE],
                 [fleet.heap EXCEPT ![NewList(i)] = <<>>])
  /\ UNCHANGED single

(* Lines 316-337: is_running, the counters and the first read. *)
FleetBaseline(i) ==
  LET m == fleet.monitor[i]
      data == Outcome(m.script, m.fetched + 1)
      read == [m EXCEPT !.is_running = TRUE, !.elapsed = 0,
                        !.fetched = m.fetched + 1, !.check_count = 1,
                        !.current_data = data]
  IN /\ m.pc = "run"
     /\ fleet' =
          FleetWith(i,
                    IF BaselineFails(data)
                      THEN [read EXCEPT !.result = ErrorResult(data),
                                        !.pc = "done"]
                      ELSE [read EXCEPT !.last_data = data,
                                        !.stop_reason = InitialStopReason,
                                        !.pc = "loop_top"],
                    fleet.heap)
     /\ UNCHANGED single

(* Line 340. *)
FleetLoopTop(i) ==
  LET m == fleet.monitor[i]
  IN /\ m.pc = "loop_top"
     /\ fleet' =
          FleetWith(i,
                    [m EXCEPT
                       !.pc = IF m.is_running
                                   /\ m.elapsed < fleet.max_duration_seconds
                                THEN "sleep" ELSE "final"],
                    fleet.heap)
     /\ UNCHANGED single

(* Lines 348-357: no stop condition is given; sleep, then look at          *)
(* is_running.                                                             *)
FleetSleep(i) ==
  LET m == fleet.monitor[i]
      remaining == fleet.max_duration_seconds - m.elapsed
      slept == [m EXCEPT !.elapsed = m.elapsed
                                       + Min(fleet.check_interval, remaining)]
  IN /\ m.pc = "sleep"
     /\ fleet' =
          FleetWith(i,
                    IF ~m.is_running
                      THEN [slept EXCEPT !.stop_reason = "stopped",
                                         !.pc = "final"]
                      ELSE [slept EXCEPT !.pc = "fetch"],
                    fleet.heap)
     /\ UNCHANGED single

(* Lines 359-367. *)
FleetFetch(i) ==
  LET m == fleet.monitor[i]
      data == Outcome(m.script, m.fetched + 1)
  IN /\ m.pc = "fetch"
     /\ fleet' =
          FleetWith(i,
                    [m EXCEPT !.fetched = m.fetched + 1,
                              !.check_count = m.check_count + 1,
                              !.current_data = data,
                              !.pc = IF SkipsTick(data) THEN "loop_top"
                                                        ELSE "compare"],
                    fleet.heap)
     /\ UNCHANGED single

(* Lines 370-373: the changes are appended to the list that the            *)
(* monitor's changes_log refers to.                                        *)
FleetCompare(i) ==
  LET m == fleet.monitor[i]
      found == _compare_data(m.last_data, m.current_data,
                             TimeStamp(m.elapsed))
  IN /\ m.pc = "compare"
     /\ fleet' =
          FleetWith(i,
                    [m EXCEPT !.changes = found, !.pc = "save"],
                    [fleet.heap EXCEPT
                       ![m.changes_log] = fleet.heap[m.changes_log] \o found])
     /\ UNCHANGED single

(* Lines 375-385. *)
FleetSave(i) ==
  LET m == fleet.monitor[i]
      saved == [m EXCEPT !.last_data = m.current_data]
  IN /\ m.pc = "save"
     /\ fleet' =
          FleetWith(i,
                    IF m.changes # <<>> /\ fleet.stop_on_change
                      THEN [saved EXCEPT !.stop_reason = "change_detected",
                                         !.pc = "final"]
                      ELSE [saved EXCEPT !.pc = "loop_top"],
                    fleet.heap)
     /\ UNCHANGED single

(* Lines 391-416 and line 140: the result refers to the monitor's list. *)
FleetFinish(i) ==
  LET m == fleet.monitor[i]
  IN /\ m.pc = "final"
     /\ fleet' =
          FleetWith(i,
                    [m EXCEPT
                       !.is_running = FALSE,
                       !.result = [status |-> m.stop_reason,
                                   data |-> m.last_data,
                                   changes |-> m.changes_log,
                                   duration_seconds |-> m.elapsed,
                                   total_checks |-> m.check_count],
                       !.pc = "done"],
                    fleet.heap)
     /\ UNCHANGED single

NextFleet ==
  \E i \in Instances :
    \/ FleetConstruct(i)
    \/ FleetBaseline(i)
    \/ FleetLoopTop(i)
    \/ FleetSleep(i)
    \/ FleetFetch(i)
    \/ FleetCompare(i)
    \/ FleetSave(i)
    \/ FleetFinish(i)

(* The single monitor of the other specifications stays as built. *)
InitFleet ==
  /\ Constructed
  /\ scheduled_time = <<"1", "2", ":", "0", "0">>
  /\ check_interval = 1
  /\ max_duration_seconds = 0
  /\ ~stop_on_change
  /\ stop_condition = None
  /\ source = Steady
  /\ now = 0
  /\ fleet \in FleetStarts
  /\ detect = NoDetect

SpecFleet == InitFleet /\ [][NextFleet]_vars

(* The result of start() on a monitor that runs alone, reading script,     *)
(* from the state s reached at the top of the loop (lines 340-416).        *)
RECURSIVE AloneLoop(_, _)
AloneLoop(script, s) ==
  IF ~(s.elapsed < fleet.max_duration_seconds)
    THEN [status |-> "timeout", data |-> s.last_data, changes |-> s.log,
          duration_seconds |-> s.elapsed, total_checks |-> s.check_count]
    ELSE LET woke == s.elapsed
                       + Min(fleet.check_interval,
                             fleet.max_duration_seconds - s.elapsed)
             data == Outcome(script, s.check_count + 1)
             found == _compare_data(s.last_data, data, TimeStamp(woke))
             read == [s EXCEPT !.elapsed = woke,
                               !.check_count = s.check_count + 1]
         IN IF HasError(data) THEN AloneLoop(script, read)
            ELSE IF found # <<>> /\ fleet.stop_on_change
              THEN [status |-> "change_detected", data |-> data,
                    changes |-> s.log \o found,
                    duration_seconds |-> woke,
                    total_checks |-> s.check_count + 1]
            ELSE AloneLoop(script,
                           [read EXCEPT !.last_data = data,
                                        !.log = s.log \o found])

(* Lines 316-337, then the loop. *)
RunAlone(script) ==
  LET data == Outcome(script, 1)
  IN IF HasError(data) THEN ErrorResult(data)
     ELSE AloneLoop(script,
                    [elapsed |-> 0, check_count |-> 1, last_data |-> data,
                     log |-> <<>>])

(* The result that the thread of monitor i stored, with the list that its  *)
(* 'changes' refers to as it is now.                                       *)
FleetResult(i) ==
  LET r == fleet.monitor[i].result
  IN IF r.status = "error" THEN r
     ELSE [r EXCEPT !.changes = fleet.heap[r.changes]]

(* The attributes of monitor i, with the list that changes_log refers to. *)
FleetAttributes(i) ==
  LET m == fleet.monitor[i]
  IN <<m.last_data, m.is_running, m.changes_log,
       IF m.changes_log = None THEN <<>> ELSE fleet.heap[m.changes_log]>>

(* C22, the results: the result of every monitor of the fleet is the       *)
(* result of the same monitor run alone on the same page.                  *)
C22_ResultAsWhenAlone ==
  \A i \in Instances :
    fleet.monitor[i].pc = "done"
      => FleetResult(i) = RunAlone(fleet.monitor[i].script)

(* C22: monitors run in parallel threads share no state: every result is   *)
(* the result of the monitor run alone, and a step of one monitor leaves   *)
(* last_data, changes_log and is_running of every other monitor as they    *)
(* were.                                                                   *)
C22_InstancesShareNothing ==
  /\ []C22_ResultAsWhenAlone
  /\ [][\A i \in Instances :
          fleet'.monitor[i].pc = fleet.monitor[i].pc
            => FleetAttributes(i)' = FleetAttributes(i)]_vars

C22_Witness ==
  /\ \A i \in Instances : fleet.monitor[i].pc = "done"
  /\ fleet.heap["PSCBJ"] # <<>>
  /\ fleet.heap["PRABC"] # <<>>
  /\ fleet.heap["PSCBJ"] # fleet.heap["PRABC"]

(* C23: a stop request made during the sleep between two ticks ends the    *)
(* wait within one second: when the loop is left as stopped, no more than  *)
(* one second has passed since the request.                                *)
C23_StopCutsSleepShort ==
  \A c \in stop_calls :
    (c.at = "sleep" /\ pc = "final" /\ stop_reason = "stopped")
      => now <= c.t + 1

-----------------------------------------------------------------------------
(* _compare_data called on its own, in both monitors. A snapshot is a      *)
(* Python dict: its keys in the order of their insertion, each with its    *)
(* value; the function reads it with data.get(field).                      *)

(* The keys of a snapshot that some _compare_data reads, in the order in   *)
(* which _extract_flight_data inserts them (lines 123-135), and in the     *)
(* opposite order.                                                         *)
KeyOrders ==
  { <<"takeoff", "takeoff_scheduled", "landing", "landing_scheduled",
      "status", "origin", "destination">>,
    <<"destination", "origin", "status", "landing_scheduled", "landing",
      "takeoff_scheduled", "takeoff">> }

(* The values that the snapshots of the calls take, field by field. *)
SnapshotValues ==
  [takeoff : {None, "10:05"}, takeoff_scheduled : {None, "10:00"},
   landing : {None, "14:32"}, landing_scheduled : {None, "14:30"},
   status : {None, "", "En Route", "Landed"}, origin : {None, "SBSP"},
   destination : {None, "SBRJ"}]

(* The dict with the keys in the given order and the values of rec. *)
Dict(order, rec) ==
  [items |-> [k \in 1..Len(order) |-> <<order[k], rec[order[k]]>>]]

(* d.get(key): the value of the key, None when the dict has no such key. *)
RECURSIVE DictGetFrom(_, _, _)
DictGetFrom(d, key, k) ==
  IF k > Len(d.items) THEN None
  ELSE IF d.items[k][1] = key THEN d.items[k][2]
  ELSE DictGetFrom(d, key, k + 1)

DictGet(d, key) == DictGetFrom(d, key, 1)

(* What _compare_data sees of a dict: the value of get for every field. *)
Gets(d) ==
  IF d = NoData THEN NoData
  ELSE [f \in DOMAIN EmptyData |-> DictGet(d, f)]

(* flight_monitor.py lines 129-137. *)
basic_fields_to_compare ==
  <<"takeoff", "takeoff_scheduled", "landing", "landing_scheduled", "status",
    "origin", "destination">>

(* flight_monitor.py lines 139-149: the loop over the fields. *)
RECURSIVE BasicCompareFrom(_, _, _)
BasicCompareFrom(old_data, new_data, i) ==
  IF i > Len(basic_fields_to_compare) THEN <<>>
  ELSE LET f == basic_fields_to_compare[i]
           rest == BasicCompareFrom(old_data, new_data, i + 1)
       IN IF old_data[f] # new_data[f] /\ new_data[f] # None
            THEN <<[field |-> f, old |-> OrNA(old_data[f]),
                    new |-> new_data[f]]>> \o rest
            ELSE rest

(* flight_monitor.py lines 122-151: FlightMonitor._compare_data. *)
FlightMonitor_compare_data(old_data, new_data) ==
  IF old_data = NoData THEN <<>> ELSE BasicCompareFrom(old_data, new_data, 1)

(* A call that has not returned. *)
DetectCall(old_data, new_data) ==
  [pc |-> "call", old_data |-> old_data, new_data |-> new_data,
   advanced |-> None, basic |-> None]

(* FlightMonitorAdvanced._compare_data(old_data, new_data) *)
DetectAdvanced ==
  /\ detect.pc = "call"
  /\ detect' =
       [detect EXCEPT
          !.advanced = _compare_data(Gets(detect.old_data),
                                     Gets(detect.new_data), TimeStamp(now)),
          !.pc = "advanced"]
  /\ UNCHANGED <<config, tabela, basic, fleet, condition_holds, second,
                 firstCall, last_data, changes_log, is_running, now, fetches>>

(* FlightMonitor._compare_data(old_data, new_data) *)
DetectBasic ==
  /\ detect.pc = "advanced"
  /\ detect' =
       [detect EXCEPT
          !.basic = FlightMonitor_compare_data(Gets(detect.old_data),
                                               Gets(detect.new_data)),
          !.pc = "basic"]
  /\ UNCHANGED <<config, tabela, basic, fleet, condition_holds, second,
                 firstCall, last_data, changes_log, is_running, now, fetches>>

NextDetect == DetectAdvanced \/ DetectBasic

(* The calls: any two snapshots with their keys in one of the orders, or   *)
(* no old snapshot.                                                        *)
InitDetect ==
  /\ Constructed
  /\ scheduled_time = <<"1", "2", ":", "0", "0">>
  /\ check_interval = 1
  /\ max_duration_seconds = 0
  /\ ~stop_on_change
  /\ stop_condition = None
  /\ source = Steady
  /\ now = 0
  /\ fleet = NoFleet
  /\ \E order \in KeyOrders, n \in SnapshotValues :
       \E o \in {NoData} \cup {Dict(order, s) : s \in SnapshotValues} :
         detect = DetectCall(o, Dict(order, n))

SpecDetect == InitDetect /\ [][NextDetect]_vars

-----------------------------------------------------------------------------
(* A call of _compare_data has returned, in the advanced monitor and in    *)
(* both monitors.                                                          *)
AdvancedReturned == detect.pc \in {"advanced", "basic"}

BasicReturned == detect.pc = "basic"

(* C24: _compare_data with no old snapshot returns the empty list,         *)
(* whatever the new snapshot, in both monitors.                            *)
C24_NoChangesWithoutOldData ==
  detect.old_data = NoData
    => /\ AdvancedReturned => detect.advanced = <<>>
       /\ BasicReturned => detect.basic = <<>>

C24_Witness ==
  /\ BasicReturned
  /\ detect.old_data = NoData
  /\ DictGet(detect.new_data, "status") = "Landed"
  /\ DictGet(detect.new_data, "takeoff") = "10:05"

(* C24, the consequence: the first read of a run on a new monitor appends  *)
(* nothing to the change log.                                              *)
C24_BaselineAppendsNothing ==
  (fetches <= 1 /\ second.pc = "idle") => changes_log = <<>>

-----------------------------------------------------------------------------
(* The fields the advanced monitor compares. *)
ComparedFields ==
  {"takeoff", "takeoff_scheduled", "landing", "landing_scheduled", "status"}

(* The call was made with an old snapshot. *)
HasOldData == detect.old_data # NoData

(* The entries of a list of changes that are about field f. *)
ChangesOf(list, f) == {k \in 1..Len(list) : list[k].field = f}

(* The snapshots a and b hold the same value in every field but f. *)
EqualBut(a, b, f) == \A g \in DOMAIN EmptyData \ {f} : a[g] = b[g]

(* C25: for two snapshots and every compared field f, the advanced        *)
(* _compare_data reports f exactly when the new value is known and differs *)
(* from the old one; so equal snapshots give no change, a value that is    *)
(* lost gives no change, and a status going from "En Route" to "Landed"    *)
(* with all else equal gives the single change (status, "En Route",        *)
(* "Landed").                                                              *)
C25_ChangeIffNewKnownValue ==
  (AdvancedReturned /\ HasOldData) =>
    LET previous == Gets(detect.old_data)
        current == Gets(detect.new_data)
    IN /\ \A f \in ComparedFields :
            ChangesOf(detect.advanced, f) # {}
              <=> (current[f] # None /\ current[f] # previous[f])
       /\ \A f \in DOMAIN EmptyData :
            current[f] = None => ChangesOf(detect.advanced, f) = {}
       /\ previous = current => detect.advanced = <<>>
       /\ ( /\ previous.status = "En Route"
            /\ current.status = "Landed"
            /\ EqualBut(previous, current, "status") )
          => /\ Len(detect.advanced) = 1
             /\ detect.advanced[1].field = "status"
             /\ detect.advanced[1].old = "En Route"
             /\ detect.advanced[1].new = "Landed"

C25_Witness ==
  /\ AdvancedReturned
  /\ HasOldData
  /\ DictGet(detect.old_data, "status") = "En Route"
  /\ DictGet(detect.new_data, "status") = "Landed"
  /\ DictGet(detect.old_data, "landing") = "14:32"
  /\ EqualBut(Gets(detect.old_data), Gets(detect.new_data), "status")
  /\ Len(detect.advanced) = 1

-----------------------------------------------------------------------------
(* The fixed order of the fields in a list of changes. *)
FieldOrder ==
  <<"takeoff", "takeoff_scheduled", "landing", "landing_scheduled", "status",
    "origin", "destination">>

Rank(f) == CHOOSE k \in 1..Len(FieldOrder) : FieldOrder[k] = f

(* The entries of the list follow FieldOrder, so no field is there twice. *)
InFieldOrder(list) ==
  \A j, k \in 1..Len(list) :
    j < k => Rank(list[j].field) < Rank(list[k].field)

(* C28: the changes one call of _compare_data returns follow the fixed     *)
(* order takeoff, takeoff_scheduled, landing, landing_scheduled, status    *)
(* (then origin, destination in the basic monitor), each field at most     *)
(* once, whatever the order of the keys of the snapshots; the advanced     *)
(* monitor reports no change of origin or destination.                     *)
C28_ChangesInFieldOrder ==
  /\ AdvancedReturned
       => /\ InFieldOrder(detect.advanced)
          /\ \A k \in 1..Len(detect.advanced) :
               detect.advanced[k].field \notin {"origin", "destination"}
  /\ BasicReturned => InFieldOrder(detect.basic)

(* Both monitors report several changes for snapshots whose keys are in    *)
(* the reverse of the order of extraction.                                 *)
C28_Witness ==
  /\ BasicReturned
  /\ detect.new_data.items[1][1] = "destination"
  /\ Len(detect.advanced) = 5
  /\ Len(detect.basic) = 7

-----------------------------------------------------------------------------
(* C26: every read of the source is counted, whatever it gives: from the   *)
(* end of the first read on, check_count is the number of reads made so    *)
(* far, and total_checks of the result is the number of reads of the run.  *)
C26_EveryFetchIsCounted ==
  /\ pc \in LoopPcs \cup {"final", "done"} => check_count = fetches
  /\ (Returned /\ "total_checks" \in DOMAIN result)
       => result.total_checks = fetches

(* A run whose later reads failed twice and then succeeded has returned. *)
C26_Witness ==
  /\ Returned
  /\ source = FailMid
  /\ "total_checks" \in DOMAIN result
  /\ result.total_checks = 4
  /\ fetches = 4

-----------------------------------------------------------------------------
(* The most recent known value of field f in the first n reads that the    *)
(* code accepted, None when the field was not known in any of them.        *)
RECURSIVE MostRecentKnown(_, _)
MostRecentKnown(f, n) ==
  IF n = 0 THEN None
  ELSE LET data == Outcome(source, n)
       IN IF data.raises = None /\ ~HasError(data) /\ data[f] # None
            THEN data[f]
            ELSE MostRecentKnown(f, n - 1)

(* C27: once a field has been read with a known value, a change of that    *)
(* field is logged only when it takes a known value other than the most    *)
(* recent known one; a field going v, None, v over three good reads logs   *)
(* no change.                                                              *)
C27_ChangeOnlyToNewKnownValue ==
  pc = "save" =>
    \A k \in 1..Len(changes) :
      LET known == MostRecentKnown(changes[k].field, fetches - 1)
      IN known # None => changes[k].new # known

-----------------------------------------------------------------------------
(* The tick in progress, if any, has been carried through. *)
BetweenTicks == pc \in {"loop_top", "cond", "sleep", "fetch", "final", "done"}

(* C29: after every read that the code accepts, the first one or a later   *)
(* one, last_data is the snapshot just read, also on the tick that ends    *)
(* the run; so the data of every result of a run that went past its first  *)
(* read is the snapshot of the last accepted read.                         *)
C29_LastDataIsLastGoodFetch ==
  /\ (BetweenTicks /\ fetches > 0 /\ LastGood(1) # NoData)
       => last_data = LastGood(fetches)
  /\ (Returned /\ "total_checks" \in DOMAIN result)
       => result.data = LastGood(fetches)

(* The same for runs in which Ctrl+C did not arrive between a read and     *)
(* the assignment of last_data.                                            *)
C29_UnlessInterruptedInTick ==
  interrupted \notin {"compare", "save"} => C29_LastDataIsLastGoodFetch

-----------------------------------------------------------------------------
(* Termination.                                                            *)

(* A source that fails on every read after the first. *)
FailingAfterBaseline == <<EnRoute, FetchError>>

(* Sources that never change, fail after the first read, change on every   *)
(* read, and one whose read raises.                                        *)
LiveScripts == {Steady, FailingAfterBaseline, Flapping, Crashing}

(* start() is called two seconds before the start time, with a positive    *)
(* interval and a positive maximum duration.                               *)
InitLive ==
  /\ ConstructedOn(LiveScripts)
  /\ max_duration_seconds > 0
  /\ now = 42298
  /\ fleet = NoFleet
  /\ detect = NoDetect

(* The steps of the thread that runs start(). *)
StartStep ==
  \/ WaitBegin
  \/ WaitTick
  \/ WaitDone
  \/ BeginRun
  \/ BaselineFetch
  \/ LoopTop
  \/ EvalCondition
  \/ NoTimeLeft
  \/ Sleep
  \/ Fetch
  \/ Compare
  \/ Save
  \/ Finish

(* The thread that runs start() is not held up for ever: time.sleep        *)
(* returns, the read returns or raises, the stop condition returns or      *)
(* raises. Calls of stop() and Ctrl+C may come or not.                     *)
SpecLive == InitLive /\ [][Next]_vars /\ WF_vars(StartStep)

(* start() was left by an exception: a read or the stop condition raised,  *)
(* the scheduled time could not be parsed, or Ctrl+C came outside the try  *)
(* block.                                                                  *)
Escaped ==
  /\ pc = "raised"
  /\ \/ exc \in {FetchRaises.raises, "ConditionError"}
     \/ ~WellFormedTime
     \/ interrupted # None

(* C30: every run terminates. While the clock advances and every read and  *)
(* every call of the stop condition returns, start() ends and returns a    *)
(* result, for every source, every positive interval and every positive    *)
(* maximum duration; it returns no result only when an exception leaves    *)
(* it. Every sleep of the loop lets the clock advance.                     *)
C30_EveryRunTerminates ==
  /\ <>(Returned \/ Escaped)
  /\ [][(pc = "sleep" /\ pc' = "fetch") => now' > now]_vars

(* A run on a source that fails after the first read has ended by timeout  *)
(* after three reads.                                                      *)
C30_Witness ==
  /\ Returned
  /\ source = FailingAfterBaseline
  /\ result.status = "timeout"
  /\ fetches >= 3

-----------------------------------------------------------------------------
(* monitorar_com_condicao_tabela (exemplo_integracao.py lines 54-73)       *)

(* exemplo_integracao.py lines 38-42, called by the application while      *)
(* start() is at pc: the arrival time of the flight is filled in.          *)
atualizar_horario_chegada ==
  /\ tabela.horario_chegada = None
  /\ pc \notin {"done", "raised"}
  /\ tabela' = [horario_chegada |-> "14:32", at |-> pc, fetches |-> fetches,
                cond_evals |-> cond_evals]
  /\ UNCHANGED <<config, basic, detect, fleet, condition_holds, second,
                 last_data, changes_log, is_running, pc, wait_start,
                 start_time, check_count, current_data, changes, stop_reason,
                 result, now, fetches, cond_evals, cond_result, stop_calls,
                 interrupted, exc>>

TableScripts == {Steady, FailMid, LandingAtTick3, Flapping}

(* Lines 63-71: the monitor is built with stop_on_change=False and the     *)
(* table's predicate as stop condition; start() is called two seconds      *)
(* before the start time.                                                  *)
InitTable ==
  /\ ConstructedWith(TableScripts, {"verificar_chegada_tabela"})
  /\ ~stop_on_change
  /\ max_duration_seconds > 0
  /\ now = 42298
  /\ fleet = NoFleet
  /\ detect = NoDetect

NextTable ==
  \/ WaitBegin
  \/ WaitTick
  \/ WaitDone
  \/ BeginRun
  \/ BaselineFetch
  \/ LoopTop
  \/ EvalCondition
  \/ NoTimeLeft
  \/ Sleep
  \/ Fetch
  \/ Compare
  \/ Save
  \/ Finish
  \/ Stop
  \/ InterruptWait
  \/ InterruptLoop
  \/ InterruptOutside
  \/ atualizar_horario_chegada

SpecTable == InitTable /\ [][NextTable]_vars

(* The arrival time was filled in while start() was in its loop. *)
ArrivalRecordedWhileRunning ==
  chegada_confirmada /\ tabela.at \in LoopPcs

(* C31: in monitorar_com_condicao_tabela, once the table has the arrival   *)
(* time while the run is in its loop, the next evaluation of the stop      *)
(* condition at the top of the loop ends the run with condition_met, after *)
(* at most one more read, unless the deadline or a request to stop ends it *)
(* first; changes read from the source in the meantime do not end it.      *)
C31_TableArrivalEndsRun ==
  ArrivalRecordedWhileRunning
    => /\ fetches <= tabela.fetches + 1
       /\ cond_evals <= tabela.cond_evals + 1
       /\ cond_evals > tabela.cond_evals
            => /\ stop_reason = "condition_met"
               /\ pc \in {"final", "done", "raised"}
       /\ stop_reason # "change_detected"
       /\ Returned
            => result.status \in {"condition_met", "timeout", "stopped",
                                  "user_interrupt"}

(* The arrival was recorded during a sleep; the read that followed found   *)
(* changes, which were logged, and the run ended with condition_met.       *)
C31_Witness ==
  /\ Returned
  /\ tabela.at = "sleep"
  /\ fetches = tabela.fetches + 1
  /\ Len(result.changes) > 0
  /\ result.status = "condition_met"
  /\ Elapsed < max_duration_seconds

-----------------------------------------------------------------------------
(* C32: whenever start() has returned, by whatever path, is_running is     *)
(* False.                                                                  *)
C32_NotRunningAfterReturn ==
  Returned => ~is_running

-----------------------------------------------------------------------------
(* C33: on a new monitor with stop_on_change set, the change log is empty  *)
(* until the tick that ends the run, so the changes of the result are      *)
(* non-empty exactly when its status is change_detected, and then they are *)
(* the changes of the last tick alone.                                     *)
C33_ChangesIffChangeDetected ==
  stop_on_change
    => /\ pc \notin {"save", "final", "done", "raised"} => changes_log = <<>>
       /\ Returned
            => /\ result.changes # <<>> <=> result.status = "change_detected"
               /\ result.status = "change_detected"
                    => result.changes = changes

(* The same for runs in which Ctrl+C did not arrive between the extension  *)
(* of the log and the break.                                               *)
C33_UnlessInterruptedInTick ==
  interrupted # "save" => C33_ChangesIffChangeDetected

-----------------------------------------------------------------------------
(* Ctrl+C came while start() was in its loop, and nowhere else since. *)
InterruptedInLoop == interrupted \in LoopPcs

(* C34: a KeyboardInterrupt raised anywhere in the loop (in the sleep, the *)
(* read, the comparison or the stop condition) is caught, and start()      *)
(* returns a full result whose data is the last snapshot read with success *)
(* and whose changes are all that was logged before the interrupt.         *)
C34_InterruptKeepsEverything ==
  InterruptedInLoop
    => /\ pc \in {"final", "done"}
       /\ exc = None
       /\ stop_reason = "user_interrupt"
       /\ last_data = LastGood(fetches)
       /\ Returned
            => /\ DOMAIN result = {"status", "data", "changes",
                                   "duration_seconds", "total_checks"}
               /\ result.status = "user_interrupt"
               /\ result.data = LastGood(fetches)
               /\ result.changes = changes_log

(* The same without the two statements about the snapshot. *)
C34_InterruptIsCaught ==
  InterruptedInLoop
    => /\ pc \in {"final", "done"}
       /\ exc = None
       /\ stop_reason = "user_interrupt"
       /\ Returned
            => /\ DOMAIN result = {"status", "data", "changes",
                                   "duration_seconds", "total_checks"}
               /\ result.status = "user_interrupt"
               /\ result.changes = changes_log

-----------------------------------------------------------------------------
(* FlightMonitor (src/flight_monitor.py) beside FlightMonitorAdvanced      *)

(* The snapshot r as the answer of a call that takes d seconds. *)
Taking(r, d) ==
  [f \in DOMAIN r \cup {"took"} |-> IF f = "took" THEN d ELSE r[f]]

(* The script with its n-th call taking delays[n] seconds. *)
Timed(script, delays) ==
  [n \in 1..Len(script) |-> Taking(script[n], delays[n])]

(* Sources that answer both monitors alike, call by call, in content and   *)
(* in time.                                                                *)
TimedScripts ==
  UNION { {Timed(script, delays) :
             delays \in [1..Len(script) -> 0..MaxFetchTime]} :
          script \in {FailFirst, FailMid, LostAndBack, Flapping,
                      Unparseable} }

(* flight_monitor.py lines 20-37: FlightMonitor(callsign, duration_hours,  *)
(* check_interval_seconds), with the duration and the interval of the      *)
(* advanced monitor. Its clock counts from the call of start().            *)
FlightMonitor ==
  [pc |-> "start", duration_seconds |-> max_duration_seconds,
   check_interval |-> check_interval, last_data |-> NoData, now |-> 0,
   start_time |-> 0, check_count |-> 0, changes_detected |-> 0,
   current_data |-> NoData, changes |-> <<>>, fetches |-> 0]

advanced ==
  <<config, tabela, detect, fleet, condition_holds, second, last_data,
    changes_log, is_running, pc, wait_start, start_time, check_count,
    current_data, changes, stop_reason, result, now, fetches, cond_evals,
    cond_result, stop_calls, interrupted, exc>>

BasicConstruct ==
  /\ basic = NoBasic
  /\ basic' = FlightMonitor
  /\ UNCHANGED advanced

(* flight_monitor.py lines 210-223: the first read. *)
BasicBaseline ==
  /\ basic.pc = "start"
  /\ LET data == Outcome(source, basic.fetches + 1)
     IN \E d \in FetchTimes(data) :
          basic' =
            LET read == [basic EXCEPT !.start_time = basic.now,
                                      !.now = basic.now + d,
                                      !.fetches = basic.fetches + 1,
                                      !.check_count = 1,
                                      !.changes_detected = 0,
                                      !.current_data = data]
            IN IF HasError(data) THEN [read EXCEPT !.pc = "done"]
               ELSE [read EXCEPT !.last_data = data, !.pc = "loop_top"]
  /\ UNCHANGED advanced

BasicElapsed == basic.now - basic.start_time

(* flight_monitor.py line 230. *)
BasicLoopTop ==
  /\ basic.pc = "loop_top"
  /\ basic' = [basic EXCEPT !.pc = IF BasicElapsed < basic.duration_seconds
                                     THEN "sleep" ELSE "final"]
  /\ UNCHANGED advanced

(* flight_monitor.py line 232. *)
BasicRemaining == basic.duration_seconds - BasicElapsed

(* A sleep of the whole interval, whatever time is left. *)
BasicSleepTime_whole == basic.check_interval

(* flight_monitor.py line 236: the argument of time.sleep. *)
BasicSleepTime == Min(basic.check_interval, BasicRemaining)

(* flight_monitor.py lines 232-236: leave the loop when no time is left,   *)
(* sleep otherwise.                                                        *)
BasicSleep ==
  /\ basic.pc = "sleep"
  /\ basic' = IF BasicRemaining <= 0
                THEN [basic EXCEPT !.pc = "final"]
                ELSE [basic EXCEPT !.now = basic.now + BasicSleepTime,
                                   !.pc = "fetch"]
  /\ UNCHANGED advanced

(* flight_monitor.py lines 238-246. *)
BasicFetch ==
  /\ basic.pc = "fetch"
  /\ LET data == Outcome(source, basic.fetches + 1)
     IN \E d \in FetchTimes(data) :
          basic' = [basic EXCEPT !.now = basic.now + d,
                                 !.fetches = basic.fetches + 1,
                                 !.check_count = basic.check_count + 1,
                                 !.current_data = data,
                                 !.pc = IF HasError(data) THEN "loop_top"
                                                          ELSE "compare"]
  /\ UNCHANGED advanced

(* flight_monitor.py lines 249-252. *)
BasicCompare ==
  /\ basic.pc = "compare"
  /\ LET found == FlightMonitor_compare_data(basic.last_data,
                                             basic.current_data)
     IN basic' = [basic EXCEPT !.changes = found,
                               !.changes_detected =
                                 IF found # <<>> THEN @ + 1 ELSE @,
                               !.pc = "save"]
  /\ UNCHANGED advanced

(* flight_monitor.py lines 255-258. *)
BasicSave ==
  /\ basic.pc = "save"
  /\ basic' = [basic EXCEPT !.last_data = basic.current_data,
                            !.pc = "loop_top"]
  /\ UNCHANGED advanced

(* flight_monitor.py lines 263-271: the summary; start() returns None. *)
BasicFinish ==
  /\ basic.pc = "final"
  /\ basic' = [basic EXCEPT !.pc = "done"]
  /\ UNCHANGED advanced

(* The steps of the two monitors. With no stop condition to call, no time  *)
(* passes between the loop test and the computation of the time left, so   *)
(* NoTimeLeft is never enabled; nothing waits, stops or interrupts.        *)
NextBasic ==
  \/ WaitBegin
  \/ BeginRun
  \/ BaselineFetch
  \/ LoopTop
  \/ Sleep
  \/ Fetch
  \/ Compare
  \/ Save
  \/ Finish
  \/ BasicConstruct
  \/ BasicBaseline
  \/ BasicLoopTop
  \/ BasicSleep
  \/ BasicFetch
  \/ BasicCompare
  \/ BasicSave
  \/ BasicFinish

(* The advanced monitor with stop_on_change unset, no stop condition and   *)
(* a start time passed 90 seconds ago; nobody calls stop().                *)
InitBasic ==
  /\ ConstructedWith(TimedScripts, {None})
  /\ scheduled_time = <<"1", "2", ":", "0", "0">>
  /\ ~stop_on_change
  /\ now = 42390
  /\ fleet = NoFleet
  /\ detect = NoDetect

SpecBasic == InitBasic /\ [][NextBasic]_vars

(* The two monitors are at the same point of the same tick. *)
AtSamePoint ==
  /\ basic.pc = pc
  /\ basic.fetches = fetches
  /\ pc \in LoopPcs \cup {"final", "done"}

BothEnded == basic.pc = "done" /\ pc = "done"

(* C35: FlightMonitorAdvanced with stop_on_change unset, no stop           *)
(* condition, a start time already reached and no call of stop() behaves   *)
(* like FlightMonitor with the same duration and interval on the same      *)
(* source: the two make the same reads at the same times, hold the same    *)
(* last_data after every tick and end at the same tick; a change that the  *)
(* basic monitor detects does not end its run.                             *)
C35_AdvancedRefinesBasic ==
  /\ AtSamePoint
       => /\ BasicElapsed = Elapsed
          /\ basic.check_count = check_count
          /\ basic.current_data = current_data
          /\ basic.last_data = last_data
  /\ BothEnded
       => /\ basic.fetches = fetches
          /\ BasicElapsed = Elapsed
          /\ basic.last_data = last_data
  /\ (basic # NoBasic /\ basic.pc \in {"final", "done"})
       => \/ BasicElapsed >= basic.duration_seconds
          \/ basic.last_data = NoData

(* Both monitors have ended after three reads, the basic one having        *)
(* detected changes on the way.                                            *)
C35_Witness ==
  /\ BothEnded
  /\ fetches >= 3
  /\ basic.changes_detected >= 2
  /\ changes_log # <<>>
  /\ result.status = "timeout"

====
